---- MODULE Spec2Model ----
(***************************************************************************)
(* playlister: scan one album directory, order the audio files by the      *)
(* number in front of their name (or, failing that, by the `track` tag the *)
(* demuxer reports), sort, and write the names to an m3u8 playlist.        *)
(*                                                                         *)
(* Text is modelled by TLA+ strings, used as sequences of characters       *)
(* (Len, Head, Tail, SubSeq, \o).  An order is a Rust u64; the model keeps *)
(* the checked arithmetic of the integer parser, scaled to U64Bits bits.    *)
(***************************************************************************)
EXTENDS Integers, Sequences, FiniteSets, TLC

VARIABLES
    directory,  \* args.directory: "." or "album"
    tree,       \* the file system: [cwd |-> entries, album |-> entries]
    outfile,    \* contents of the file at args.outfile
    pc,         \* position of main
    idx,        \* position of the read_dir iterator (1-based)
    ffmpegd,    \* collect_audio_files: the fallback-warning flag
    data,       \* collect_audio_files: res, then main: data
    out,        \* main: the playlist text being built
    stdout,     \* progress lines written to standard output
    trace       \* stderr warnings and demuxer invocations, in program order

vars == <<directory, tree, outfile, pc, idx, ffmpegd, data, out, stdout, trace>>

(***************************** bounds **************************************)
U64Bits == 4
MaxEntries == 3
MaxStemLen == 2
MaxTags == 2

RECURSIVE Pow2(_)
Pow2(n) == IF n = 0 THEN 1 ELSE 2 * Pow2(n - 1)

U64_MAX == Pow2(U64Bits) - 1

(***************************** options *************************************)
Some(x) == [some |-> TRUE, v |-> x]
None == [some |-> FALSE]

(***************************** characters **********************************)
CharAt(s, i) == SubSeq(s, i, i)

Digits == "0123456789"
Upper == "ABCDEFGHIJKLMNOPQRSTUVWXYZ"
Lower == "abcdefghijklmnopqrstuvwxyz"

IndexIn(alphabet, c) ==
    IF \E i \in 1..Len(alphabet) : CharAt(alphabet, i) = c
    THEN CHOOSE i \in 1..Len(alphabet) : CharAt(alphabet, i) = c
    ELSE 0

\* char::is_ascii_digit
IsAsciiDigit(c) == IndexIn(Digits, c) # 0

\* char::to_digit(10), for an ASCII digit
DigitVal(c) == IndexIn(Digits, c) - 1

RECURSIVE ToAsciiLowercase(_)
\* str::to_ascii_lowercase
ToAsciiLowercase(s) ==
    IF s = "" THEN ""
    ELSE LET c == Head(s)
             u == IndexIn(Upper, c)
         IN (IF u = 0 THEN c ELSE CharAt(Lower, u)) \o ToAsciiLowercase(Tail(s))

\* 1-based position of the first `c` in s, 0 when there is none
FirstIndexOf(s, c) ==
    IF \E i \in 1..Len(s) : CharAt(s, i) = c
    THEN CHOOSE i \in 1..Len(s) :
            CharAt(s, i) = c /\ \A j \in 1..(i - 1) : CharAt(s, j) # c
    ELSE 0

\* 1-based position of the last `c` in s, 0 when there is none
LastIndexOf(s, c) ==
    IF \E i \in 1..Len(s) : CharAt(s, i) = c
    THEN CHOOSE i \in 1..Len(s) :
            CharAt(s, i) = c /\ \A j \in (i + 1)..Len(s) : CharAt(s, j) # c
    ELSE 0

(***************************** integer parsing *****************************)
RECURSIVE WrappingDigits(_, _)
\* the digit fold without the overflow checks: wraps at the width
WrappingDigits(s, acc) ==
    IF s = "" THEN Some(acc)
    ELSE LET c == Head(s)
         IN IF ~IsAsciiDigit(c) THEN None
            ELSE WrappingDigits(Tail(s), (acc * 10 + DigitVal(c)) % (U64_MAX + 1))

RECURSIVE CheckedDigits(_, _)
\* the digit fold of u64::from_str: checked_mul(10) then checked_add(digit)
CheckedDigits(s, acc) ==
    IF s = "" THEN Some(acc)
    ELSE LET c == Head(s)
         IN IF ~IsAsciiDigit(c) THEN None
            ELSE IF acc * 10 > U64_MAX THEN None
            ELSE IF acc * 10 + DigitVal(c) > U64_MAX THEN None
            ELSE CheckedDigits(Tail(s), acc * 10 + DigitVal(c))

ParseU64Wrapping(s) ==
    IF s = "" THEN None
    ELSE WrappingDigits(IF Head(s) = "+" /\ Len(s) > 1 THEN Tail(s) ELSE s, 0)

\* str::parse::<u64>: empty is an error, one leading `+` is accepted, every
\* other character must be an ASCII digit, a value above u64::MAX is an error
ParseU64(s) ==
    IF s = "" THEN None
    ELSE CheckedDigits(IF Head(s) = "+" /\ Len(s) > 1 THEN Tail(s) ELSE s, 0)

(***************************** paths ***************************************)
AUDIO_EXT ==
    {"mp3", "flac", "opus", "ape", "ogg", "mka",
     "aac", "alac", "m4a", "caf", "wma", "wav"}

\* Utf8Path::file_name of a one-component path
FileName(v) == IF v = "" \/ v = ".." \/ v = "." THEN None ELSE Some(v)

\* Utf8Path::extension: the part after the last `.`, unless there is no `.`
\* or the only `.` is the first character
Extension(v) ==
    LET d == LastIndexOf(v, ".")
    IN IF ~FileName(v).some \/ d = 0 \/ d = 1 THEN None
       ELSE Some(SubSeq(v, d + 1, Len(v)))

(***************************** Audiophile::try_from ***********************)
RECURSIVE NumIdxFrom(_, _)
\* the loop over fname.char_indices() chained with (fname.len(), NUL):
\* the 0-based index of the first character that is not an ASCII digit
NumIdxFrom(fname, i) ==
    IF i = Len(fname) THEN i
    ELSE IF ~IsAsciiDigit(CharAt(fname, i + 1)) THEN i
    ELSE NumIdxFrom(fname, i + 1)

NumIdx(fname) == NumIdxFrom(fname, 0)

Audiophile(order, name) == [tag |-> "Ok", order |-> order, name |-> name]
NoExt(v) == [tag |-> "NoExt", order |-> 0, name |-> v]
HasExtNoOrder(v) == [tag |-> "HasExtNoOrder", order |-> 0, name |-> v]

\* the order a file name carries: the parse of its leading digits
FilenameOrderWrapping(fname) == ParseU64Wrapping(SubSeq(fname, 1, NumIdx(fname)))

FilenameOrder(fname) == ParseU64(SubSeq(fname, 1, NumIdx(fname)))

\* try_from without the extension test
TryFromAnyExt(v) ==
    LET order == FilenameOrder(v)
    IN IF order.some THEN Audiophile(order.v, v) ELSE HasExtNoOrder(v)

TryFrom(v) ==
    LET ext == Extension(v)
    IN IF ~ext.some THEN NoExt(v)
       ELSE IF ext.v \in AUDIO_EXT
            THEN LET fname == FileName(v)
                 IN IF ~fname.some THEN HasExtNoOrder(v)
                    ELSE LET order == FilenameOrder(fname.v)
                         IN IF ~order.some THEN HasExtNoOrder(v)
                            ELSE Audiophile(order.v, v)
            ELSE NoExt(v)

(***************************** get_track ***********************************)
\* the part of a tag value before the first `/`
BeforeSlash(v) ==
    LET p == FirstIndexOf(v, "/")
    IN IF p = 0 THEN v ELSE SubSeq(v, 1, p - 1)

RECURSIVE GetTrackFirstKeyOnly(_)
\* get_track stopping at the first key that matches, parsed or not
GetTrackFirstKeyOnly(iter) ==
    IF iter = <<>> THEN None
    ELSE LET k == Head(iter)[1]
             v == Head(iter)[2]
         IN IF ToAsciiLowercase(k) = "track"
            THEN ParseU64(BeforeSlash(v))
            ELSE GetTrackFirstKeyOnly(Tail(iter))

RECURSIVE GetTrack(_)
GetTrack(iter) ==
    IF iter = <<>> THEN None
    ELSE LET k == Head(iter)[1]
             v == Head(iter)[2]
             track == ParseU64(BeforeSlash(v))
         IN IF ToAsciiLowercase(k) = "track" /\ track.some THEN track
            ELSE GetTrack(Tail(iter))

(***************************** the file system *****************************)
\* a directory entry: its name, whether the name is valid UTF-8, its file
\* type, and what the demuxer finds when it opens the file
Entry(name, utf8, ftype, openable, tags) ==
    [name |-> name, utf8 |-> utf8, ftype |-> ftype,
     openable |-> openable, tags |-> tags]

AudioFile(name, tags) == Entry(name, TRUE, "file", TRUE, tags)

\* the entries read_dir(dir) yields, in enumeration order
Scanned == IF directory = "." THEN tree.cwd ELSE tree.album

\* the entries of the directory a path names: a path without a directory
\* part is relative to the working directory of the process
DirOf(path) ==
    LET p == FirstIndexOf(path, "/")
    IN IF p = 0 \/ SubSeq(path, 1, p - 1) = "." THEN tree.cwd ELSE tree.album

BaseOf(path) == SubSeq(path, LastIndexOf(path, "/") + 1, Len(path))

\* ffmpeg_next::format::input(&path): the tags of the file the path names,
\* or an error when there is no such file, it is not a regular file or the
\* demuxer cannot read it
FfmpegInput(path) ==
    LET d == DirOf(path)
        hits == {i \in 1..Len(d) : d[i].utf8 /\ d[i].name = BaseOf(path)}
    IN IF hits = {} THEN [ok |-> FALSE, tags |-> <<>>]
       ELSE LET e == d[CHOOSE i \in hits : TRUE]
            IN IF e.ftype = "file" /\ e.openable
               THEN [ok |-> TRUE, tags |-> e.tags]
               ELSE [ok |-> FALSE, tags |-> <<>>]

(***************************** Audiophile::parse_tags **********************)
ParseTags(file) ==
    LET parse == FfmpegInput(file)
    IN IF ~parse.ok THEN [tag |-> "IoErr", order |-> 0, name |-> file]
       ELSE LET track == GetTrack(parse.tags)
            IN IF track.some THEN Audiophile(track.v, file)
               ELSE [tag |-> "Err", order |-> 0, name |-> file]

(***************************** collect_audio_files *************************)
Event(ev, name) == [ev |-> ev, name |-> name]

\* the path collect_audio_files hands to parse_tags for the entry `buf` of
\* the directory `dir`
DemuxPath(dir, buf) == buf

\* the result of one iteration of the read_dir loop
Step(abort, d, f, t) == [abort |-> abort, data |-> d, ffmpegd |-> f, trace |-> t]

\* main returns the error: the runtime reports it on stderr and exits non-zero
Failure(kind, t) == Append(t, Event("error", kind))

\* the warning written whenever a file takes the fallback
NoticeEveryTime(t) == Append(t, Event("warn_fallback", ""))

\* if !ffmpegd { ffmpegd = true; write_warn(..) }: the trace after it
FallbackNotice(t) ==
    IF ~ffmpegd THEN Append(t, Event("warn_fallback", "")) ELSE t

\* a demuxer error taken as one more file that cannot be ordered
TagsErrorSkipsFile(buf, t) ==
    Step(FALSE, data, TRUE, Append(t, Event("warn_unorderable", buf)))

\* Audiophile::parse_tags(buf)?: the error leaves collect_audio_files
TagsError(buf, t) == Step(TRUE, data, TRUE, Failure("demux", t))

\* the HasExtNoOrder arm: warn once, then order the file by its tags
Fallback(buf) ==
    LET path == DemuxPath(directory, buf)
        called == Append(FallbackNotice(trace), Event("demux", path))
        tagged == ParseTags(path)
    IN CASE tagged.tag = "IoErr" -> TagsError(buf, called)
         [] tagged.tag = "Ok" ->
                Step(FALSE, Append(data, Audiophile(tagged.order, buf)), TRUE, called)
         [] OTHER ->
                Step(FALSE, data, TRUE, Append(called, Event("warn_unorderable", buf)))

\* one iteration of `for file in fs::read_dir(dir)?`: `io` is what the
\* operating system answers for this entry
LoopBody(e, io) ==
    IF io = "entry_err" THEN Step(TRUE, data, ffmpegd, Failure("entry", trace))
    ELSE IF io = "type_err" THEN Step(TRUE, data, ffmpegd, Failure("file_type", trace))
    ELSE IF e.ftype # "file" THEN Step(FALSE, data, ffmpegd, trace)
    ELSE IF ~e.utf8 THEN Step(TRUE, data, ffmpegd, Failure("utf8", trace))
    ELSE LET r == TryFrom(e.name)
         IN CASE r.tag = "Ok" ->
                    Step(FALSE, Append(data, Audiophile(r.order, r.name)), ffmpegd, trace)
              [] r.tag = "NoExt" -> Step(FALSE, data, ffmpegd, trace)
              [] OTHER -> Fallback(r.name)

(***************************** sort and emit *******************************)
IsSortedByKey(s) == \A i \in 1..(Len(s) - 1) : s[i].order <= s[i + 1].order

Rearrangements(s) ==
    {[i \in 1..Len(s) |-> s[p[i]]] : p \in Permutations(1..Len(s))}

\* leaves the slice in the order the scan produced
SortSkipped(s) == {s}

\* sorts by the key, largest first
SortDescending(s) ==
    {t \in Rearrangements(s) :
        \A i \in 1..(Len(t) - 1) : t[i].order >= t[i + 1].order}

\* sort_unstable_by_key(|i| i.order): some rearrangement in key order; the
\* order of elements with equal keys is not preserved
SortUnstableByKey(s) == {t \in Rearrangements(s) : IsSortedByKey(t)}

\* the line main adds to `out` for one entry
Line(af) == FileName(af.name).v \o "\n"

RECURSIVE Lines(_)
Lines(s) == IF s = <<>> THEN "" ELSE Line(Head(s)) \o Lines(Tail(s))

Progress(af) == [order |-> af.order, name |-> FileName(af.name).v]

(***************************** the program *********************************)
\* let mut res = vec![]; let mut ffmpegd = false; fs::read_dir(dir)?
StartScan ==
    /\ pc = "start"
    /\ \E ok \in BOOLEAN :
          /\ pc' = IF ok THEN "scan" ELSE "failed"
          /\ trace' = IF ok THEN trace ELSE Failure("read_dir", trace)
    /\ idx' = 1
    /\ data' = <<>>
    /\ ffmpegd' = FALSE
    /\ UNCHANGED <<directory, tree, outfile, out, stdout>>

ScanEntry ==
    /\ pc = "scan"
    /\ idx <= Len(Scanned)
    /\ \E io \in {"ok", "entry_err", "type_err"} :
          \E s \in {LoopBody(Scanned[idx], io)} :
              /\ data' = s.data
              /\ ffmpegd' = s.ffmpegd
              /\ trace' = s.trace
              /\ pc' = IF s.abort THEN "failed" ELSE "scan"
              /\ idx' = IF s.abort THEN idx ELSE idx + 1
    /\ UNCHANGED <<directory, tree, outfile, out, stdout>>

\* Ok(res)
ScanDone ==
    /\ pc = "scan"
    /\ idx > Len(Scanned)
    /\ pc' = "sort"
    /\ UNCHANGED <<directory, tree, outfile, idx, ffmpegd, data, out, stdout, trace>>

Sort ==
    /\ pc = "sort"
    /\ data' \in SortUnstableByKey(data)
    /\ out' = ""
    /\ pc' = "emit"
    /\ UNCHANGED <<directory, tree, outfile, idx, ffmpegd, stdout, trace>>

\* for af in data: the progress write fails at entry `stop`, or not at all
Emit ==
    /\ pc = "emit"
    /\ \E stop \in 0..Len(data) :
          LET n == IF stop = 0 THEN Len(data) ELSE stop - 1
              done == SubSeq(data, 1, n)
          IN /\ stdout' = [i \in 1..n |-> Progress(done[i])]
             /\ out' = Lines(done)
             /\ pc' = IF stop = 0 THEN "write" ELSE "failed"
             /\ trace' = IF stop = 0 THEN trace ELSE Failure("stdout", trace)
    /\ UNCHANGED <<directory, tree, outfile, idx, ffmpegd, data>>

\* fs::write(args.outfile, out)?: a failed write leaves the file as it was
\* or truncated
WriteOut ==
    /\ pc = "write"
    /\ \E ok \in BOOLEAN :
          /\ pc' = IF ok THEN "done" ELSE "failed"
          /\ outfile' \in (IF ok THEN {out} ELSE {outfile, ""})
          /\ trace' = IF ok THEN trace ELSE Failure("write", trace)
    /\ UNCHANGED <<directory, tree, idx, ffmpegd, data, out, stdout>>

\* the program is run again on the same file system
Rerun ==
    /\ pc \in {"done", "failed"}
    /\ pc' = "start"
    /\ idx' = 1
    /\ ffmpegd' = FALSE
    /\ data' = <<>>
    /\ out' = ""
    /\ stdout' = <<>>
    /\ trace' = <<>>
    /\ UNCHANGED <<directory, tree, outfile>>

Next ==
    \/ StartScan
    \/ ScanEntry
    \/ ScanDone
    \/ Sort
    \/ Emit
    \/ WriteOut
    \/ Rerun

ExitCode == IF pc = "done" THEN 0 ELSE IF pc = "failed" THEN 1 ELSE -1

(***************************** initial states ******************************)
OldPlaylist == "old.mp3\n"

EntryPool ==
    { AudioFile("01.flac", <<<<"track", "5">>>>),
      AudioFile("intro.flac", <<<<"title", "x">>, <<"TRACK", "2/12">>>>),
      AudioFile("middle.flac", <<<<"track", "x">>, <<"Track", "1">>>>),
      AudioFile("bonus.wav", <<>>),
      AudioFile("cover.jpg", <<>>),
      AudioFile("03.FLAC", <<<<"track", "3">>>>),
      Entry("live.m4a", TRUE, "file", FALSE, <<>>),
      Entry("9.opus", TRUE, "dir", FALSE, <<>>),
      Entry("04.flac", FALSE, "file", TRUE, <<>>) }

\* what the album directory may hold when it is not the working directory
AlbumPool ==
    {e \in EntryPool :
        e.name \in {"01.flac", "intro.flac", "middle.flac", "bonus.wav", "live.m4a"}}

\* what the working directory holds when another directory is scanned
CwdPool ==
    { <<>>,
      << AudioFile("intro.flac", <<<<"track", "9">>>>),
         AudioFile("bonus.wav", <<<<"track", "+4">>>>) >>,
      << AudioFile("middle.flac", <<>>),
         Entry("bonus.wav", TRUE, "file", FALSE, <<>>),
         AudioFile("live.m4a", <<<<"track", "6">>>>) >> }

DistinctNames(s) == \A i, j \in 1..Len(s) : i # j => s[i].name # s[j].name

Listings(pool, n) ==
    {s \in UNION {[1..k -> pool] : k \in 0..n} : DistinctNames(s)}

InitRun ==
    /\ outfile = OldPlaylist
    /\ pc = "start"
    /\ idx = 1
    /\ ffmpegd = FALSE
    /\ data = <<>>
    /\ out = ""
    /\ stdout = <<>>
    /\ trace = <<>>

Init ==
    /\ \/ /\ directory = "."
          /\ \E s \in Listings(EntryPool, MaxEntries) :
                tree = [cwd |-> s, album |-> <<>>]
       \/ /\ directory = "album"
          /\ \E s \in Listings(AlbumPool, MaxEntries), c \in CwdPool :
                tree = [cwd |-> c, album |-> s]
    /\ InitRun

(* A directory with one file, its name or its tags drawn from every string  *)
(* over a small alphabet: the inputs of the two order parsers.              *)
StemAlphabet == {"0", "1", "6", "9", "a", "."}
ExtPool == {".flac", ".FLAC", ".txt", ""}
KeyPool == {"track", "TrAcK", "title"}
ValuePool == {"3", "x", "2/12", "999"}

RECURSIVE Stems(_)
Stems(n) ==
    IF n = 0 THEN {""}
    ELSE Stems(n - 1) \cup {c \o s : c \in StemAlphabet, s \in Stems(n - 1)}

TagLists(n) == UNION {[1..k -> KeyPool \X ValuePool] : k \in 0..n}

InitParse ==
    /\ directory = "."
    /\ \/ \E stem \in Stems(MaxStemLen), ext \in ExtPool :
             /\ stem \o ext \notin {"", ".", ".."}
             /\ tree = [cwd |-> <<AudioFile(stem \o ext, <<<<"track", "7">>>>)>>,
                        album |-> <<>>]
       \/ \E tags \in TagLists(MaxTags) :
             tree = [cwd |-> <<AudioFile("intro.flac", tags)>>, album |-> <<>>]
    /\ InitRun

Spec == Init /\ [][Next]_vars

ParseSpec == InitParse /\ [][Next]_vars

(***************************** vocabulary of the properties ****************)
RECURSIVE SplitLines(_)
\* the lines of a text, without their newlines
SplitLines(text) ==
    IF text = "" THEN <<>>
    ELSE LET p == FirstIndexOf(text, "\n")
         IN IF p = 0 THEN <<text>>
            ELSE <<SubSeq(text, 1, p - 1)>> \o SplitLines(SubSeq(text, p + 1, Len(text)))

DecimalDigits == {"0", "1", "2", "3", "4", "5", "6", "7", "8", "9"}

\* the number of leading characters of a name that are decimal digits
LeadingDigits(name) ==
    CHOOSE k \in 0..Len(name) :
        /\ \A i \in 1..k : CharAt(name, i) \in DecimalDigits
        /\ k = Len(name) \/ CharAt(name, k + 1) \notin DecimalDigits

RECURSIVE DecimalValue(_)
\* the number a string of decimal digits denotes, without any width
DecimalValue(s) ==
    IF s = "" THEN 0
    ELSE 10 * DecimalValue(SubSeq(s, 1, Len(s) - 1))
           + (CHOOSE d \in 0..9 : CharAt(Digits, d + 1) = CharAt(s, Len(s)))

\* the order the name alone gives, if any
NameOrder(name) ==
    LET k == LeadingDigits(name)
    IN IF k = 0 THEN None
       ELSE IF DecimalValue(SubSeq(name, 1, k)) > U64_MAX THEN None
       ELSE Some(DecimalValue(SubSeq(name, 1, k)))

\* the name ends in `.x` for a recognised x, after a non-empty stem
HasAudioExt(name) ==
    \E x \in AUDIO_EXT :
        /\ Len(name) > Len(x) + 1
        /\ SubSeq(name, Len(name) - Len(x), Len(name)) = "." \o x

KeyIsTrack(k) == ToAsciiLowercase(k) = "track"

\* the track of a tag list: the value of the first `track` key whose value
\* parses
FirstParsableTrack(tags) ==
    LET good == {j \in 1..Len(tags) :
                    KeyIsTrack(tags[j][1]) /\ ParseU64(BeforeSlash(tags[j][2])).some}
    IN IF good = {} THEN None
       ELSE ParseU64(BeforeSlash(tags[CHOOSE j \in good : \A h \in good : j <= h][2]))

\* the track of a tag list: the value of the first `track` key, if it parses
FirstKeyTrack(tags) ==
    LET keys == {j \in 1..Len(tags) : KeyIsTrack(tags[j][1])}
    IN IF keys = {} THEN None
       ELSE ParseU64(BeforeSlash(tags[CHOOSE j \in keys : \A h \in keys : j <= h][2]))

IsAudioEntry(e) == e.ftype = "file" /\ e.utf8 /\ HasAudioExt(e.name)

\* an audio file the name of which gives no order
NeedsFallback(e) == IsAudioEntry(e) /\ ~NameOrder(e.name).some

\* the scan has gone past entry i
Processed(i) == pc # "start" /\ i < idx

LastEvent == IF trace = <<>> THEN Event("", "") ELSE trace[Len(trace)]

\* the scan has reached the classification of entry i
Classified(i) ==
    \/ Processed(i)
    \/ i = idx /\ pc = "failed" /\ LastEvent = Event("error", "demux")

Count(ev) == Cardinality({k \in 1..Len(trace) : trace[k].ev = ev})

EventsOf(ev, name) == {k \in 1..Len(trace) : trace[k] = Event(ev, name)}

DemuxCalls == {k \in 1..Len(trace) : trace[k].ev = "demux"}

Demuxed(name) == \E k \in DemuxCalls : BaseOf(trace[k].name) = name

Collected(name) == {j \in 1..Len(data) : data[j].name = name}

PositionInScan(name) ==
    CHOOSE i \in 1..Len(Scanned) : Scanned[i].utf8 /\ Scanned[i].name = name

ScanIndices == 1..Len(Scanned)

(***************************** C1 ******************************************)
AssignedOrder(name) == data[CHOOSE j \in Collected(name) : TRUE].order

\* C1: in every playlist a run writes, adjacent lines a then b satisfy
\* order(a) <= order(b), order being the track number the scan assigned.
C1_SortedOutput ==
    pc = "done" =>
        LET ls == SplitLines(outfile)
        IN /\ \A i \in 1..Len(ls) : Collected(ls[i]) # {}
           /\ \A i \in 1..(Len(ls) - 1) :
                 AssignedOrder(ls[i]) <= AssignedOrder(ls[i + 1])

\* a playlist whose first line was enumerated after its second
C1_Witness ==
    /\ pc = "done"
    /\ Len(SplitLines(outfile)) >= 2
    /\ LET ls == SplitLines(outfile)
       IN /\ PositionInScan(ls[1]) > PositionInScan(ls[2])
          /\ AssignedOrder(ls[1]) < AssignedOrder(ls[2])

(***************************** C6 ******************************************)
Sorted == pc \in {"emit", "write", "done"}

\* C6 as claimed: the sort is stable, entries with equal order keep the
\* order in which the scan produced them.
C6_StableSort ==
    Sorted =>
        \A i, j \in 1..Len(data) :
            (i < j /\ data[i].order = data[j].order)
                => PositionInScan(data[i].name) < PositionInScan(data[j].name)

\* C6 as amended: sorting rearranges the collection without losing or
\* duplicating an entry, and entries with equal order end up next to each
\* other, nothing of another order between them.
C6_TiesAdjacent ==
    [][pc = "sort" =>
         /\ \E p \in Permutations(1..Len(data)) :
               data' = [i \in 1..Len(data) |-> data[p[i]]]
         /\ \A i, j \in 1..Len(data') :
               (i < j /\ data'[i].order = data'[j].order)
                   => \A k \in i..j : data'[k].order = data'[i].order]_vars

\* two entries of equal order, a third of another order enumerated between
\* them, and the later of the two sorted first
C6_Witness ==
    /\ Sorted
    /\ \E i, j, k \in 1..Len(data) :
          /\ i < j
          /\ data[i].order = data[j].order
          /\ data[k].order # data[i].order
          /\ PositionInScan(data[j].name) < PositionInScan(data[k].name)
          /\ PositionInScan(data[k].name) < PositionInScan(data[i].name)

(***************************** C7 ******************************************)
\* C7: for a name with a recognised extension, k being the number of leading
\* ASCII digits: k = 0 gives no order; otherwise the order is the decimal
\* value of the first k characters, leading zeros ignored, and a value that
\* does not fit the order's width gives no order (the file goes to the
\* metadata fallback) instead of a wrapped or truncated number.
C7_FilenameOrder ==
    \A i \in ScanIndices :
        (Processed(i) /\ IsAudioEntry(Scanned[i])) =>
            LET name == Scanned[i].name
                k == LeadingDigits(name)
                value == DecimalValue(SubSeq(name, 1, k))
            IN IF k > 0 /\ value <= U64_MAX
               THEN /\ ~Demuxed(name)
                    /\ Cardinality(Collected(name)) = 1
                    /\ AssignedOrder(name) = value
               ELSE Demuxed(name)

\* a name whose digits denote more than the width holds, sent to the fallback
C7_Witness ==
    \E i \in ScanIndices :
        /\ Processed(i)
        /\ IsAudioEntry(Scanned[i])
        /\ LeadingDigits(Scanned[i].name) > 0
        /\ DecimalValue(SubSeq(Scanned[i].name, 1, LeadingDigits(Scanned[i].name))) > U64_MAX
        /\ Demuxed(Scanned[i].name)
        /\ Collected(Scanned[i].name) # {}

(***************************** C8 ******************************************)
\* what the scan did with the tags the demuxer returned for call k agrees
\* with the track read from them, from the first `track` key only or from
\* the first one that parses
TagsDecide(firstKeyOnly) ==
    \A k \in DemuxCalls :
        LET parse == FfmpegInput(trace[k].name)
            name == BaseOf(trace[k].name)
            want(tags) == IF firstKeyOnly THEN FirstKeyTrack(tags)
                          ELSE FirstParsableTrack(tags)
        IN (parse.ok /\ \E i \in ScanIndices : Processed(i) /\ Scanned[i].name = name) =>
              IF want(parse.tags).some
              THEN /\ Cardinality(Collected(name)) = 1
                   /\ AssignedOrder(name) = want(parse.tags).v
                   /\ EventsOf("warn_unorderable", name) = {}
              ELSE /\ Collected(name) = {}
                   /\ EventsOf("warn_unorderable", name) # {}

\* C8 as claimed: only the first key that folds to `track` is looked at; no
\* order if there is none or if its value does not parse.
C8_FirstKeyOnly == TagsDecide(TRUE)

\* C8 as amended: the order is the value, up to the first `/`, of the first
\* key folding to `track` whose value parses; keys whose value does not parse
\* are passed over; no order if no such key exists.
C8_FirstParsable == TagsDecide(FALSE)

\* a file ordered by its second `track` key, the first one not parsing
C8_Witness ==
    \E k \in DemuxCalls :
        LET parse == FfmpegInput(trace[k].name)
        IN /\ parse.ok
           /\ ~FirstKeyTrack(parse.tags).some
           /\ FirstParsableTrack(parse.tags).some
           /\ Collected(BaseOf(trace[k].name)) # {}

(***************************** C9 ******************************************)
\* C9: the demuxer is invoked only for a regular file with a recognised
\* extension whose name gave no order; every collected entry has its order
\* from the name, or else from the one demuxer call made for it, and a name
\* that gives an order keeps it whatever the tags say.
C9_OneSource ==
    /\ \A k \in DemuxCalls :
          \E i \in ScanIndices :
              /\ Classified(i)
              /\ Scanned[i].name = BaseOf(trace[k].name)
              /\ NeedsFallback(Scanned[i])
    /\ \A j \in 1..Len(data) :
          LET name == data[j].name
          IN /\ \E i \in ScanIndices : Scanned[i].name = name /\ IsAudioEntry(Scanned[i])
             /\ IF NameOrder(name).some
                THEN data[j].order = NameOrder(name).v /\ ~Demuxed(name)
                ELSE /\ Cardinality({k \in DemuxCalls : BaseOf(trace[k].name) = name}) = 1
                     /\ \A k \in DemuxCalls :
                           BaseOf(trace[k].name) = name =>
                               Some(data[j].order) = GetTrack(FfmpegInput(trace[k].name).tags)

\* a file collected with the order of its name although its tag says another
C9_Witness ==
    \E j \in 1..Len(data) :
        /\ NameOrder(data[j].name).some
        /\ data[j].order = NameOrder(data[j].name).v
        /\ LET e == Scanned[PositionInScan(data[j].name)]
           IN /\ FirstParsableTrack(e.tags).some
              /\ FirstParsableTrack(e.tags).v # data[j].order

(***************************** C3 ******************************************)
ScanErrors == {"read_dir", "entry", "file_type", "utf8", "demux"}

ScanFailed == pc = "failed" /\ LastEvent.ev = "error" /\ LastEvent.name \in ScanErrors

\* every error of the scan is the end of the run, at the entry it occurred
ErrorsStopTheScan ==
    /\ \A k \in 1..Len(trace) :
          (trace[k].ev = "error" /\ trace[k].name \in ScanErrors) =>
              /\ k = Len(trace)
              /\ pc = "failed"
              /\ idx <= Len(Scanned) \/ trace[k].name = "read_dir"
    /\ \A i \in ScanIndices :
          Processed(i) => ~(Scanned[i].ftype = "file" /\ ~Scanned[i].utf8)
    /\ \A k \in DemuxCalls :
          ~FfmpegInput(trace[k].name).ok =>
              /\ k = Len(trace) - 1
              /\ ScanFailed
              /\ Scanned[idx].name = BaseOf(trace[k].name)

\* C3: an error while reading the directory, an entry or its type, a name
\* that is not text, or a demuxer that cannot open a file ends the run at
\* that entry with a non-zero exit, and the playlist file is not touched:
\* from the start of the run to its failure its contents never change.
C3_AbortLeavesOutput ==
    [][/\ ErrorsStopTheScan'
       /\ pc \in {"start", "scan"} => outfile' = outfile
       /\ ScanFailed => (outfile' = outfile /\ pc' = "start")
       /\ ScanFailed' => (ExitCode' = 1 /\ idx' = idx)]_vars

\* the demuxer fails on the third entry, two being collected already
C3_Witness ==
    /\ ScanFailed
    /\ LastEvent.name = "demux"
    /\ Len(data) = 2
    /\ outfile = OldPlaylist

(***************************** C4 ******************************************)
\* C4: the fallback warning is written once in a run in which an audio file
\* gave no order by its name, and not at all in any other run, however many
\* files take the fallback; it is written right before the first demuxer
\* call; the flag is set exactly when the warning was written in this run,
\* so every run starts with it cleared.
C4_OneFallbackWarning ==
    /\ Count("warn_fallback") =
          (IF \E i \in ScanIndices : Classified(i) /\ NeedsFallback(Scanned[i])
           THEN 1 ELSE 0)
    /\ (pc # "start") => (ffmpegd <=> Count("warn_fallback") = 1)
    /\ (pc = "start") => Count("warn_fallback") = 0
    /\ \A k \in DemuxCalls :
          IF \A h \in DemuxCalls : k <= h
          THEN k > 1 /\ trace[k - 1].ev = "warn_fallback"
          ELSE trace[k - 1].ev # "warn_fallback"

\* a second file takes the fallback in a run that follows a completed one
C4_Witness ==
    /\ outfile # OldPlaylist
    /\ pc = "scan"
    /\ Cardinality(DemuxCalls) = 2
    /\ Count("warn_fallback") = 1

(***************************** C2 ******************************************)
\* the entry can be ordered: by its name, or by the tags of the file itself
Orderable(e) ==
    \/ NameOrder(e.name).some
    \/ e.openable /\ FirstParsableTrack(e.tags).some

\* the names the playlist is to hold
Expected == {Scanned[i].name : i \in {h \in ScanIndices :
                                        IsAudioEntry(Scanned[h]) /\ Orderable(Scanned[h])}}

RECURSIVE Unlines(_)
Unlines(ls) == IF ls = <<>> THEN "" ELSE Head(ls) \o "\n" \o Unlines(Tail(ls))

\* C2: a run that ends without error leaves a playlist of bare names, one
\* per line, each followed by one newline: exactly the regular files with a
\* recognised lower-case extension that have an order from their name or
\* from their own tags, each once, and nothing else; only non-audio files
\* give the empty playlist, exit 0.
C2_ExactlyTheOrderable ==
    pc = "done" =>
        LET ls == SplitLines(outfile)
        IN /\ ExitCode = 0
           /\ outfile = Unlines(ls)
           /\ \A i \in 1..Len(ls) : ls[i] # "" /\ FirstIndexOf(ls[i], "/") = 0
           /\ {ls[i] : i \in 1..Len(ls)} = Expected
           /\ Len(ls) = Cardinality(Expected)
           /\ (\A i \in ScanIndices : ~IsAudioEntry(Scanned[i])) => outfile = ""

(***************************** C5 ******************************************)
\* an audio file with no number in front of its name and no track tag that
\* parses
Unorderable(e) ==
    /\ NeedsFallback(e)
    /\ LeadingDigits(e.name) = 0
    /\ e.openable
    /\ ~FirstParsableTrack(e.tags).some

\* C5: such a file gets one warning that names it, is left out of the
\* playlist, does not end the scan and does not change the exit status.
C5_WarnAndContinue ==
    \A i \in ScanIndices :
        Unorderable(Scanned[i]) =>
            /\ ~(i = idx /\ ScanFailed /\ LastEvent.name = "demux")
            /\ Processed(i) =>
                  /\ Cardinality(EventsOf("warn_unorderable", Scanned[i].name)) = 1
                  /\ Collected(Scanned[i].name) = {}
            /\ (pc = "done" /\ ExitCode = 0) =>
                  \A h \in 1..Len(SplitLines(outfile)) :
                      SplitLines(outfile)[h] # Scanned[i].name

(***************************** C10 *****************************************)
\* the directory part of a path, "." when it has none
DirNameOf(path) ==
    LET p == LastIndexOf(path, "/")
    IN IF p = 0 THEN "." ELSE SubSeq(path, 1, p - 1)

\* C10: whatever the directory argument, the demuxer is given the path of
\* the entry inside the scanned directory, so an entry ordered by the
\* fallback has the track of its own tags, and the scan fails on a demuxer
\* error only if the entry itself cannot be opened.
C10_DemuxerReadsTheEntry ==
    /\ \A k \in DemuxCalls : DirNameOf(trace[k].name) = directory
    /\ \A j \in 1..Len(data) :
          LET e == Scanned[PositionInScan(data[j].name)]
          IN Demuxed(e.name) =>
                (e.openable /\ Some(data[j].order) = FirstParsableTrack(e.tags))
    /\ (ScanFailed /\ LastEvent.name = "demux") => ~Scanned[idx].openable

====
